---------------------------- MODULE Spec2Model ----------------------------
(***************************************************************************)
(* Model of src/pipelines/zero_shot_classification.rs (rust-bert):         *)
(*   - ZeroShotClassificationOption::new / model_type (variant dispatch),  *)
(*   - ZeroShotClassificationModel::prepare_for_model, predict and         *)
(*     predict_multilabel (NLI reduction of the logits to Label records).  *)
(*                                                                         *)
(* Numbers.  Logits are small naturals (each row of logits sums to at     *)
(* most MaxLogit).  exp is modelled by the exact                           *)
(* exponential Exp(x) = 2^x, and a score is the exact fraction             *)
(* Exp(x) / sum of Exp, kept in lowest terms, so that two scores are the   *)
(* same number iff the records are equal.  Floating-point rounding is not  *)
(* modelled.                                                               *)
(***************************************************************************)
EXTENDS Integers, Sequences, FiniteSets, TLC

VARIABLES
    arg_model_type,        \* `model_type` handed to ZeroShotClassificationOption::new
    arg_config,            \* shape of the `config: &ConfigOption` handed to new
    xlnet_new,             \* what XLNetForSequenceClassification::new(p, config) returns
    zero_shot_classifier,  \* result of ZeroShotClassificationOption::new
    reported_type,         \* last value returned by model_type()
    pad_id,                \* tokenizer.get_pad_id(): Some(id) or None
    num_classes,           \* trailing dimension C of the loaded network's logits
    network,               \* the network as a function: padded row -> logits, as far as evaluated
    inputs,                \* `inputs` of the first call
    labels,                \* `labels` of the first call
    template,              \* `template` of the calls
    max_length,            \* `max_length` of the calls
    calls,                 \* the calls made so far, each with its arguments and outcome
    prepared,              \* what prepare_for_model returned, when run on its own
    threads                \* concurrent calls: each thread's position and local variables

vars == << arg_model_type, arg_config, xlnet_new, zero_shot_classifier, reported_type,
           pad_id, num_classes, network, inputs, labels, template, max_length, calls,
           prepared, threads >>

newVars == << arg_model_type, arg_config, xlnet_new, zero_shot_classifier, reported_type >>
modelVars == << pad_id, num_classes >>
argVars == << inputs, labels, template, max_length >>
otherVars == << prepared, threads >>

\* a function on 1..n as the sequence of its values, computed once
Tuple(f) == SubSeq(f, 1, Len(f))

-----------------------------------------------------------------------------
(* Bounds of the model *)

MaxInputs == 2
MaxLabels == 3
MaxClasses == 4
MaxLogit == 1
MaxCells == 8

-----------------------------------------------------------------------------
(* ZeroShotClassificationOption: construction and the model_type accessor  *)

\* The nine variants of the enum, by their tag.
ZeroShotClassificationOption ==
    {"Bart", "Bert", "DistilBert", "MobileBert", "Roberta", "XLMRoberta",
     "Albert", "XLNet", "Longformer"}

\* ModelType values: the nine with an arm in new, and others that fall to `_`.
ModelType == ZeroShotClassificationOption \cup {"Electra", "Marian", "T5"}

\* ConfigOption shapes.
ConfigOption ==
    {"Bart", "Bert", "DistilBert", "MobileBert", "Albert", "XLNet", "Longformer",
     "Electra", "Marian", "T5"}

None == [tag |-> "None", val |-> "-"]
Ok(v) == [tag |-> "Ok", val |-> v]
Err(e) == [tag |-> "Err", val |-> e]
Panic(at) == [tag |-> "Panic", val |-> at]

\* The `if let ConfigOption::X(config) = config` pattern of each arm of new.
ArmPattern(mt) ==
    CASE mt = "Bart" -> "Bart"
      [] mt = "Bert" -> "Bert"
      [] mt = "DistilBert" -> "DistilBert"
      [] mt = "MobileBert" -> "MobileBert"
      [] mt = "Roberta" -> "Bert"
      [] mt = "XLMRoberta" -> "Bert"
      [] mt = "Albert" -> "Albert"
      [] mt = "XLNet" -> "XLNet"
      [] mt = "Longformer" -> "Longformer"
      [] OTHER -> "-"

\* ZeroShotClassificationOption::new(model_type, p, config); xl is the Result of
\* XLNetForSequenceClassification::new, which the XLNet arm unwraps.
ZeroShotClassificationOption_new(mt, cfg, xl) ==
    IF mt \notin ZeroShotClassificationOption
    THEN Err("InvalidConfigurationError")
    ELSE IF cfg # ArmPattern(mt)
    THEN Err("InvalidConfigurationError")
    ELSE IF mt = "XLNet" /\ xl # "Ok"
    THEN Panic("XLNetForSequenceClassification::new(..).unwrap()")
    ELSE Ok(mt)

\* ZeroShotClassificationOption::model_type(&self), self given by its variant tag.
ZeroShotClassificationOption_model_type(self) ==
    CASE self = "Bart" -> "Bart"
      [] self = "Bert" -> "Bert"
      [] self = "Roberta" -> "Roberta"
      [] self = "XLMRoberta" -> "Roberta"
      [] self = "DistilBert" -> "DistilBert"
      [] self = "MobileBert" -> "MobileBert"
      [] self = "Albert" -> "Albert"
      [] self = "XLNet" -> "XLNet"
      [] self = "Longformer" -> "Longformer"


-----------------------------------------------------------------------------
(* Texts and the tokenizer.  A text is the sequence of its word tokens; the *)
(* tokenizer (rust_tokenizers, outside this file) is modelled by            *)
(* encode_pair: [CLS] a [SEP] b [SEP] after LongestFirst truncation.        *)

Some(v) == [tag |-> "Some", val |-> v]
NoPad == [tag |-> "None", val |-> 0]

InputText(i) == IF i % 2 = 1 THEN << 10 + i >> ELSE << 10 + i, 10 + i >>
LabelText(j) == << 20 + j >>

Cls == << 0 >>
Sep == << 2 >>
BartPad == Some(1)

\* format!("This example is about {}.", label)
DefaultTemplate(label) == << 3, 4 >> \o label \o << 5 >>
\* a caller-supplied closure, Some(function)
CustomTemplate(label) == << 6 >> \o label

\* mutant: the caller's template is ignored
label_sentences_default(labs, tmpl) ==
    Tuple([j \in 1..Len(labs) |-> DefaultTemplate(labs[j])])

\* let label_sentences = match template { Some(function) => .., None => .. }
label_sentences(labs, tmpl) ==
    Tuple([j \in 1..Len(labs) |->
        IF tmpl = "Some" THEN CustomTemplate(labs[j]) ELSE DefaultTemplate(labs[j])])

\* mutant: the cross product built label-major
text_pair_list_label_major(ins, sentences) ==
    Tuple([k \in 1..(Len(ins) * Len(sentences)) |->
        << ins[((k - 1) % Len(ins)) + 1],
           sentences[((k - 1) \div Len(ins)) + 1] >>])

\* inputs.iter().flat_map(|input| label_sentences.iter().map(|ls| (input, ls))).collect()
text_pair_list(ins, sentences) ==
    Tuple([k \in 1..(Len(ins) * Len(sentences)) |->
        << ins[((k - 1) \div Len(sentences)) + 1],
           sentences[((k - 1) % Len(sentences)) + 1] >>])

\* TruncationStrategy::LongestFirst: drop one token at a time from the end of
\* the longer sequence until the pair (with its 3 special tokens) fits.
RECURSIVE LongestFirst(_, _, _)
LongestFirst(a, b, room) ==
    IF Len(a) + Len(b) <= room \/ Len(a) + Len(b) = 0
    THEN << a, b >>
    ELSE IF Len(a) >= Len(b)
         THEN LongestFirst(SubSeq(a, 1, Len(a) - 1), b, room)
         ELSE LongestFirst(a, SubSeq(b, 1, Len(b) - 1), room)

\* one element of tokenizer.encode_pair_list(pairs, max_len, LongestFirst, 0)
encode_pair(pair, max_len) ==
    LET room == IF max_len >= 3 THEN max_len - 3 ELSE 0
        cut == LongestFirst(pair[1], pair[2], room)
    IN  Cls \o cut[1] \o Sep \o cut[2] \o Sep

RECURSIVE MaxOf(_)
MaxOf(S) ==
    LET x == CHOOSE y \in S : TRUE
    IN  IF S = {x} THEN x
        ELSE LET m == MaxOf(S \ {x}) IN IF x > m THEN x ELSE m

\* mutant: the padding put in front of the row
PadRowLeft(row, pad, len) == Tuple([k \in 1..(len - Len(row)) |-> pad]) \o row

\* input.extend(vec![pad; max_len - input.len()])
PadRow(row, pad, len) == row \o Tuple([k \in 1..(len - Len(row)) |-> pad])

\* Tensor::ne: the boolean tensor, of the same shape, of "differs from v"
ne(tensor, v) ==
    Tuple([k \in 1..Len(tensor) |->
        Tuple([c \in 1..Len(tensor[k]) |-> tensor[k][c] # v])])

\* prepare_for_model has not been run
NotRun ==
    [tag |-> "NotRun", at |-> "-", tokenized |-> << >>,
     input_tensor |-> << >>, mask |-> << >>]

\* mutant: the pad id is asked for only when a row is shorter than the batch
PadExpectedWhenPadding(pad, tokenized_input) ==
    /\ pad.tag = "None"
    /\ \E k, m \in 1..Len(tokenized_input) :
           Len(tokenized_input[k]) # Len(tokenized_input[m])

\* vec![self.tokenizer.get_pad_id().expect(..); max_len - input.len()] asks for
\* the pad id for every row, whatever the count: it panics iff there is none
PadExpectPanics(pad, tokenized_input) == pad.tag = "None"

\* ZeroShotClassificationModel::prepare_for_model: the panic it ends in, or
\* the pair (tokenized_input_tensors, mask); tokenized is what the tokenizer
\* returned for the pairs.
prepare_for_model(ins, labs, tmpl, max_len, pad) ==
    LET pairs == text_pair_list(ins, label_sentences(labs, tmpl))
        tokenized_input ==
            Tuple([k \in 1..Len(pairs) |-> encode_pair(pairs[k], max_len)])
    IN  IF Len(tokenized_input) = 0
        THEN [tag |-> "Panic", at |-> "max().unwrap()", tokenized |-> tokenized_input,
              input_tensor |-> << >>, mask |-> << >>]
        ELSE IF PadExpectPanics(pad, tokenized_input)
        THEN [tag |-> "Panic", at |-> "get_pad_id().expect()",
              tokenized |-> tokenized_input,
              input_tensor |-> << >>, mask |-> << >>]
        ELSE LET len == MaxOf({Len(tokenized_input[k]) : k \in 1..Len(tokenized_input)})
                 tensor == Tuple([k \in 1..Len(tokenized_input) |->
                               PadRow(tokenized_input[k], pad.val, len)])
             IN  [tag |-> "Ok", at |-> "-", tokenized |-> tokenized_input,
                  input_tensor |-> tensor,
                  mask |-> ne(tensor, pad.val)]


-----------------------------------------------------------------------------
(* Tensor operations used by predict and predict_multilabel                 *)

Exp(x) == 2 ^ x

RECURSIVE Gcd(_, _)
Gcd(a, b) == IF b = 0 THEN a ELSE Gcd(b, a % b)

\* the number n / d
Frac(n, d) == [num |-> n \div Gcd(n, d), den |-> d \div Gcd(n, d)]
One == Frac(1, 1)
Less(a, b) == a.num * b.den < b.num * a.den

RECURSIVE SumSeq(_)
SumSeq(xs) == IF Len(xs) = 0 THEN 0 ELSE xs[1] + SumSeq(Tail(xs))

\* softmax of a vector of logits
Softmax(xs) ==
    LET total == SumSeq(Tuple([m \in 1..Len(xs) |-> Exp(xs[m])]))
    IN  Tuple([k \in 1..Len(xs) |-> Frac(Exp(xs[k]), total)])

\* mutant: the rows read label-major, [L, N, C] transposed
ViewTransposed(flat, n, l) ==
    Tuple([i \in 1..n |-> Tuple([j \in 1..l |-> flat[(j - 1) * n + i]])])

\* output.view((num_inputs, labels.len(), -1)) of the [N*L, C] logits
View(flat, n, l) ==
    Tuple([i \in 1..n |-> Tuple([j \in 1..l |-> flat[(i - 1) * l + j]])])

\* mutant: softmax(2, Float), over the class axis
SoftmaxDim2(t) ==
    Tuple([i \in 1..Len(t) |-> Tuple([j \in 1..Len(t[i]) |-> Softmax(t[i][j])])])

\* tensor.softmax(1, Float) of an [N, L, C] tensor: over the label axis
SoftmaxDim1(t) ==
    Tuple([i \in 1..Len(t) |-> Tuple([j \in 1..Len(t[i]) |->
        Tuple([c \in 1..Len(t[i][j]) |->
            Softmax(Tuple([jj \in 1..Len(t[i]) |-> t[i][jj][c]]))[j]])])])

\* tensor.softmax(-1, Float): over the trailing axis
SoftmaxLast(t) ==
    Tuple([i \in 1..Len(t) |-> Tuple([j \in 1..Len(t[i]) |-> Softmax(t[i][j])])])

\* mutant: select(-1, 0), the contradiction class
SelectFirst(t) ==
    Tuple([i \in 1..Len(t) |-> Tuple([j \in 1..Len(t[i]) |-> t[i][j][1]])])

\* tensor.select(-1, -1): the last entry of the trailing axis
SelectLast(t) ==
    Tuple([i \in 1..Len(t) |-> Tuple([j \in 1..Len(t[i]) |-> t[i][j][Len(t[i][j])]])])

\* vector.slice(0, start, end, step): entries start, start+step, .. below
\* min(end, len), indices counted from 0
SliceVec(xs, start, end, step) ==
    LET stop == IF end < Len(xs) THEN end ELSE Len(xs)
        count == IF stop <= start THEN 0 ELSE ((stop - start - 1) \div step) + 1
    IN  Tuple([k \in 1..count |-> xs[start + (k - 1) * step + 1]])

\* tensor.slice(-1, 0, 3, 2)
Slice023(t) ==
    Tuple([i \in 1..Len(t) |-> Tuple([j \in 1..Len(t[i]) |-> SliceVec(t[i][j], 0, 3, 2)])])

\* mutant: the index of the last maximal value
ArgmaxLast(xs) ==
    (CHOOSE k \in 1..Len(xs) :
        /\ \A m \in 1..Len(xs) : ~Less(xs[k], xs[m])
        /\ \A m \in (k + 1)..Len(xs) : Less(xs[m], xs[k])) - 1

\* vector.argmax: the index (from 0) of the first maximal value
Argmax(xs) ==
    (CHOOSE k \in 1..Len(xs) :
        /\ \A m \in 1..Len(xs) : ~Less(xs[k], xs[m])
        /\ \A m \in 1..(k - 1) : Less(xs[m], xs[k])) - 1

-----------------------------------------------------------------------------
(* predict and predict_multilabel, from the logits of the forward pass      *)

Label(text, score, id, sentence) ==
    [text |-> text, score |-> score, id |-> id, sentence |-> sentence]

\* predict, lines 689-708: flat is the [N*L, C] output of forward_t
predict_labels(flat, num_inputs, labs) ==
    LET output == View(flat, num_inputs, Len(labs))
        scores == SelectLast(SoftmaxDim1(output))
        label_indices == Tuple([i \in 1..Len(scores) |-> Argmax(scores[i])])
        gathered == Tuple([i \in 1..Len(scores) |-> scores[i][label_indices[i] + 1]])
    IN  Tuple([s \in 1..Len(label_indices) |->
            Label(labs[label_indices[s] + 1], gathered[s], label_indices[s], s - 1)])

\* mutant: each sentence's labels sorted by decreasing score
RECURSIVE InsertByScore(_, _)
InsertByScore(sorted, label) ==
    IF Len(sorted) = 0 THEN << label >>
    ELSE IF Less(sorted[1].score, label.score) THEN << label >> \o sorted
    ELSE << sorted[1] >> \o InsertByScore(Tail(sorted), label)

RECURSIVE SortByScore(_)
SortByScore(ls) ==
    IF Len(ls) = 0 THEN << >>
    ELSE InsertByScore(SortByScore(SubSeq(ls, 1, Len(ls) - 1)), ls[Len(ls)])

predict_multilabel_sorted(flat, num_inputs, labs) ==
    LET output == View(flat, num_inputs, Len(labs))
        scores == SelectLast(SoftmaxLast(Slice023(output)))
    IN  Tuple([s \in 1..num_inputs |->
            SortByScore(Tuple([j \in 1..Len(scores[s]) |->
                Label(labs[j], scores[s][j], j - 1, s - 1)]))])

\* predict_multilabel, lines 829-852
predict_multilabel_labels(flat, num_inputs, labs) ==
    LET output == View(flat, num_inputs, Len(labs))
        scores == SelectLast(SoftmaxLast(Slice023(output)))
    IN  Tuple([s \in 1..num_inputs |->
            Tuple([j \in 1..Len(scores[s]) |->
                Label(labs[j], scores[s][j], j - 1, s - 1)])])


-----------------------------------------------------------------------------
(* The calls.  forward_t evaluates the loaded network on every row of the   *)
(* batch; the network is a fixed but unknown function of a row, so `network`*)
(* keeps the logits of each row evaluated so far and a row seen again gets  *)
(* the same logits.                                                         *)

MaxLengths == {7, 128}

\* the rows of logits considered: num_classes naturals summing to MaxLogit at most
LogitRows == {r \in [1..num_classes -> 0..MaxLogit] : SumSeq(r) <= MaxLogit}

RowsOf(tensor) == {tensor[k] : k \in 1..Len(tensor)}

ApplyPerm(xs, p) == Tuple([k \in 1..Len(xs) |-> xs[p[k]]])

Identity(n) == Tuple([k \in 1..n |-> k])

CallRecord(fn, ins, labs, ip, lp, res) ==
    [fn |-> fn, inputs |-> ins, labels |-> labs,
     input_perm |-> ip, label_perm |-> lp, result |-> res]

\* zero_shot_classifier.forward_t(Some(input_tensor), Some(mask), ..): the
\* [N*L, C] logits, row k those of the network on row k of the batch
forward_t(net, input_tensor) ==
    Tuple([k \in 1..Len(input_tensor) |-> net[input_tensor[k]]])

\* the Label records either entry point builds from the logits
Reduce(fn, flat, num_inputs, labs) ==
    IF fn = "predict"
    THEN predict_labels(flat, num_inputs, labs)
    ELSE predict_multilabel_labels(flat, num_inputs, labs)

\* mutant: forward_t called with train = true (dropout active)
TrainOn == TRUE

\* the `train` argument both entry points hand to forward_t: false
Train == FALSE

\* the rows whose logits are settled: in evaluation mode the network is a
\* function of the row; in training mode dropout draws them anew every time
Settled(net) == IF Train THEN {} ELSE DOMAIN net

\* one whole call of predict ("predict") or predict_multilabel ("multilabel")
Run(fn, ins, labs, ip, lp) ==
    LET prep == prepare_for_model(ins, labs, template, max_length, pad_id)
    IN  IF prep.tag = "Panic"
        THEN /\ calls' = Append(calls, CallRecord(fn, ins, labs, ip, lp,
                    [tag |-> "Panic", at |-> prep.at, logits |-> << >>, out |-> << >>,
                     tensors |-> FALSE, forward |-> FALSE]))
             /\ UNCHANGED network
        ELSE \E fresh \in [RowsOf(prep.input_tensor) \ Settled(network) -> LogitRows] :
                /\ network' = fresh @@ network
                /\ calls' = Append(calls, CallRecord(fn, ins, labs, ip, lp,
                        [tag |-> "Ok", at |-> "-",
                         logits |-> forward_t(fresh @@ network, prep.input_tensor),
                         out |-> Reduce(fn, forward_t(fresh @@ network, prep.input_tensor),
                                        Len(ins), labs),
                         tensors |-> TRUE, forward |-> TRUE]))

Loaded == zero_shot_classifier.tag = "Ok"

Predict ==
    /\ Loaded
    /\ Len(calls) = 0
    /\ Run("predict", inputs, labels, Identity(Len(inputs)), Identity(Len(labels)))
    /\ UNCHANGED << newVars, modelVars, argVars, otherVars >>

PredictMultilabel ==
    /\ Loaded
    /\ Len(calls) = 0
    /\ Run("multilabel", inputs, labels, Identity(Len(inputs)), Identity(Len(labels)))
    /\ UNCHANGED << newVars, modelVars, argVars, otherVars >>

\* a second call of predict, with the inputs and the labels reordered
PredictReordered ==
    /\ Loaded
    /\ Len(calls) = 1
    /\ calls[1].fn = "predict"
    /\ \E ip \in Permutations(1..Len(inputs)), lp \in Permutations(1..Len(labels)) :
           Run("predict", ApplyPerm(inputs, ip), ApplyPerm(labels, lp), ip, lp)
    /\ UNCHANGED << newVars, modelVars, argVars, otherVars >>

\* a second call of predict_multilabel, with the inputs and the labels reordered
PredictMultilabelReordered ==
    /\ Loaded
    /\ Len(calls) = 1
    /\ calls[1].fn = "multilabel"
    /\ \E ip \in Permutations(1..Len(inputs)), lp \in Permutations(1..Len(labels)) :
           Run("multilabel", ApplyPerm(inputs, ip), ApplyPerm(labels, lp), ip, lp)
    /\ UNCHANGED << newVars, modelVars, argVars, otherVars >>

\* a model loaded from ZeroShotClassificationConfig::default() (Bart), and the
\* arguments of the calls
Init ==
    /\ arg_model_type = "Bart"
    /\ arg_config = "Bart"
    /\ xlnet_new = "Ok"
    /\ zero_shot_classifier = ZeroShotClassificationOption_new("Bart", "Bart", "Ok")
    /\ reported_type = None
    /\ pad_id = BartPad
    /\ num_classes \in 2..MaxClasses
    /\ network = << >>
    /\ inputs \in {[i \in 1..n |-> InputText(i)] : n \in 0..MaxInputs}
    /\ labels \in {[j \in 1..l |-> LabelText(j)] : l \in 0..MaxLabels}
    /\ Len(inputs) * Len(labels) * num_classes <= MaxCells
    /\ template = "None"
    /\ max_length \in MaxLengths
    /\ calls = << >>
    /\ prepared = NotRun
    /\ threads = << >>

Next ==
    \/ Predict
    \/ PredictMultilabel
    \/ PredictReordered
    \/ PredictMultilabelReordered

Spec == Init /\ [][Next]_vars

-----------------------------------------------------------------------------
(* Construction: ZeroShotClassificationOption::new, then model_type()       *)

New ==
    /\ zero_shot_classifier = None
    /\ zero_shot_classifier' =
           ZeroShotClassificationOption_new(arg_model_type, arg_config, xlnet_new)
    /\ UNCHANGED << arg_model_type, arg_config, xlnet_new, reported_type,
                    modelVars, argVars, network, calls, otherVars >>

CallModelType ==
    /\ zero_shot_classifier.tag = "Ok"
    /\ reported_type' = Some(ZeroShotClassificationOption_model_type(zero_shot_classifier.val))
    /\ UNCHANGED << arg_model_type, arg_config, xlnet_new, zero_shot_classifier,
                    modelVars, argVars, network, calls, otherVars >>

InitNew ==
    /\ arg_model_type \in ModelType
    /\ arg_config \in ConfigOption
    /\ xlnet_new \in {"Ok", "Err"}
    /\ zero_shot_classifier = None
    /\ reported_type = None
    /\ pad_id = BartPad
    /\ num_classes = 3
    /\ network = << >>
    /\ inputs = << >>
    /\ labels = << >>
    /\ template = "None"
    /\ max_length = 128
    /\ calls = << >>
    /\ prepared = NotRun
    /\ threads = << >>

NextNew ==
    \/ New
    \/ CallModelType

SpecNew == InitNew /\ [][NextNew]_vars


-----------------------------------------------------------------------------
(* Properties                                                               *)

CallsOf(fn) == {k \in 1..Len(calls) : calls[k].fn = fn}
NumInputs(c) == Len(c.inputs)
NumLabels(c) == Len(c.labels)
NonEmpty(c) == NumInputs(c) >= 1 /\ NumLabels(c) >= 1

\* the entailment (last-class) logit of row i*L+j of the call's logits, i and j from 1
Entailment(c, i, j) ==
    c.result.logits[(i - 1) * NumLabels(c) + j][num_classes]

\* the contradiction (class 0) logit of that row
Contradiction(c, i, j) ==
    c.result.logits[(i - 1) * NumLabels(c) + j][1]

\* the labels of input i whose entailment logit is the greatest
Maximal(c, i) ==
    {j \in 1..NumLabels(c) :
        \A m \in 1..NumLabels(c) : Entailment(c, i, m) <= Entailment(c, i, j)}

\* C1: for N >= 1 inputs, L >= 1 labels and every class count, predict returns
\* exactly N Labels in input order; the i-th has sentence = i, an id in 0..L-1
\* whose entailment logit is the greatest of rows i*L .. i*L+L-1, and
\* text = labels[id].
C1_PredictArgmaxEntailment ==
    \A k \in CallsOf("predict") :
        LET c == calls[k] IN
        NonEmpty(c) =>
            /\ c.result.tag = "Ok"
            /\ Len(c.result.out) = NumInputs(c)
            /\ \A i \in 1..NumInputs(c) :
                  LET lab == c.result.out[i] IN
                  /\ lab.sentence = i - 1
                  /\ lab.id \in 0..(NumLabels(c) - 1)
                  /\ lab.id + 1 \in Maximal(c, i)
                  /\ lab.text = c.labels[lab.id + 1]

\* C1 witness: predict on two inputs and two labels answers label 1 for the
\* first input and label 0 for the second.
C1_Witness ==
    \E k \in CallsOf("predict") :
        /\ NumInputs(calls[k]) = 2
        /\ NumLabels(calls[k]) = 2
        /\ calls[k].result.tag = "Ok"
        /\ calls[k].result.out[1].id = 1
        /\ calls[k].result.out[2].id = 0

C3_MultilabelScoreIsFirstVsLast ==
    \A k \in CallsOf("multilabel") :
        LET c == calls[k] IN
        c.result.tag = "Ok" =>
            \A i \in 1..NumInputs(c) : \A j \in 1..NumLabels(c) :
                c.result.out[i][j].score =
                    Frac(Exp(Entailment(c, i, j)),
                         Exp(Contradiction(c, i, j)) + Exp(Entailment(c, i, j)))

\* C6 (as claimed): a call with an empty inputs list or an empty labels list
\* ends in a caller-input validation error, before any tensor is built and
\* any forward pass, and never reaches the max-of-empty computation.
C6_EmptyArgumentsRejected ==
    \A k \in 1..Len(calls) :
        LET c == calls[k] IN
        ~NonEmpty(c) =>
            /\ c.result.tag = "Err"
            /\ c.result.at # "max().unwrap()"
            /\ ~c.result.tensors
            /\ ~c.result.forward

\* C7: predict with exactly one label and N >= 1 inputs returns, for every
\* input, id = 0, text = that label and score = 1.0, whatever the logits.
C7_SingleLabelScoresOne ==
    \A k \in CallsOf("predict") :
        LET c == calls[k] IN
        (NumLabels(c) = 1 /\ NumInputs(c) >= 1) =>
            /\ c.result.tag = "Ok"
            /\ Len(c.result.out) = NumInputs(c)
            /\ \A i \in 1..NumInputs(c) :
                  /\ c.result.out[i].id = 0
                  /\ c.result.out[i].text = c.labels[1]
                  /\ c.result.out[i].score = One

\* C7 witness: predict with one label on two inputs whose entailment logits
\* differ, with a class count of 3 or more.
C7_Witness ==
    \E k \in CallsOf("predict") :
        /\ NumLabels(calls[k]) = 1
        /\ NumInputs(calls[k]) = 2
        /\ num_classes >= 3
        /\ calls[k].result.tag = "Ok"
        /\ Entailment(calls[k], 1, 1) # Entailment(calls[k], 2, 1)
        /\ Entailment(calls[k], 1, 1) # Contradiction(calls[k], 1, 1)

LabelsReordered ==
    /\ Len(calls) = 2
    /\ calls[1].result.tag = "Ok"
    /\ calls[2].result.tag = "Ok"
    /\ calls[2].input_perm = Identity(Len(inputs))

\* the second call repeats the first with only the inputs reordered
InputsReordered ==
    /\ Len(calls) = 2
    /\ calls[1].result.tag = "Ok"
    /\ calls[2].result.tag = "Ok"
    /\ calls[2].label_perm = Identity(Len(labels))

\* predict_multilabel after a reordering of the labels: the label at position
\* k of the new list keeps the score it had at its old position.
MultilabelFollowsLabels ==
    (LabelsReordered /\ calls[1].fn = "multilabel") =>
        \A i \in 1..Len(inputs) : \A k \in 1..Len(labels) :
            /\ calls[2].result.out[i][k].score =
                   calls[1].result.out[i][calls[2].label_perm[k]].score
            /\ calls[2].result.out[i][k].text =
                   calls[1].result.out[i][calls[2].label_perm[k]].text

\* C9 (as claimed): for any permutation of the labels, predict returns for
\* each input the same label text with the same score and an id equal to that
\* label's position in the permuted list, for all logits, ties included; and
\* predict_multilabel returns each label's score at its permuted position.
C9_LabelOrderNeverChangesTheLabel ==
    /\ MultilabelFollowsLabels
    /\ (LabelsReordered /\ calls[1].fn = "predict") =>
          \A i \in 1..Len(inputs) :
              /\ calls[2].result.out[i].text = calls[1].result.out[i].text
              /\ calls[2].result.out[i].score = calls[1].result.out[i].score
              /\ calls[2].labels[calls[2].result.out[i].id + 1] =
                     calls[1].result.out[i].text

\* C9 (amended): for any permutation of the labels, predict_multilabel returns
\* each label's score at its permuted position, and predict returns for each
\* input the same score and, among the labels whose entailment score is
\* maximal for that input, the one that comes first in the permuted list, with
\* id its position there: the same label text as before whenever the maximum
\* is attained by one label only.
C9_LabelOrderDecidesOnlyTies ==
    /\ MultilabelFollowsLabels
    /\ (LabelsReordered /\ calls[1].fn = "predict") =>
          \A i \in 1..Len(inputs) :
              LET new == calls[2].result.out[i]
                  lp == calls[2].label_perm
              IN  /\ new.score = calls[1].result.out[i].score
                  /\ new.text = calls[2].labels[new.id + 1]
                  /\ lp[new.id + 1] \in Maximal(calls[1], i)
                  /\ \A k \in 1..new.id : lp[k] \notin Maximal(calls[1], i)
                  /\ Cardinality(Maximal(calls[1], i)) = 1 =>
                         new.text = calls[1].result.out[i].text

\* C9 witness: predict over three reordered labels, one of them the only
\* maximum, is answered with the same text at a different id.
C9_Witness ==
    /\ LabelsReordered
    /\ calls[1].fn = "predict"
    /\ Len(labels) = 3
    /\ Cardinality(Maximal(calls[1], 1)) = 1
    /\ calls[2].result.out[1].id # calls[1].result.out[1].id
    /\ calls[2].result.out[1].text = calls[1].result.out[1].text

\* C10: for any permutation of the inputs, predict and predict_multilabel
\* return the same per-input results (text, id, score) permuted in the same
\* way, only the sentence field following the new position.
C10_InputOrderPermutesResults ==
    InputsReordered =>
        \A k \in 1..Len(inputs) :
            LET old == calls[1].result.out[calls[2].input_perm[k]]
                new == calls[2].result.out[k]
            IN  IF calls[1].fn = "predict"
                THEN new = [old EXCEPT !.sentence = k - 1]
                ELSE /\ Len(new) = Len(old)
                     /\ \A j \in 1..Len(old) :
                            new[j] = [old[j] EXCEPT !.sentence = k - 1]

\* C10 witness: two inputs with different answers are swapped, and the second
\* call's first answer differs from the first call's first answer.
C10_Witness ==
    /\ InputsReordered
    /\ calls[1].fn = "predict"
    /\ Len(inputs) = 2
    /\ Len(labels) = 2
    /\ calls[2].input_perm = << 2, 1 >>
    /\ calls[1].result.out[1].id # calls[1].result.out[2].id
    /\ calls[2].result.out[1].id = calls[1].result.out[2].id

\* the config shape each supported model type requires
RequiredConfig(mt) ==
    IF mt \in {"Roberta", "XLMRoberta"} THEN "Bert" ELSE mt

\* C4 (as claimed): ZeroShotClassificationOption::new returns an
\* InvalidConfigurationError value, never a panic and never an adapter, when
\* the config's shape is not the one model_type requires or model_type is not
\* one of the nine families, and otherwise returns Ok with model_type's variant.
C4_NewReturnsErrOrVariant ==
    zero_shot_classifier # None =>
        IF /\ arg_model_type \in ZeroShotClassificationOption
           /\ arg_config = RequiredConfig(arg_model_type)
        THEN zero_shot_classifier = Ok(arg_model_type)
        ELSE zero_shot_classifier = Err("InvalidConfigurationError")

\* C5 (as claimed): for every supported model type t and a matching config,
\* the adapter built by new(t, ..) reports model_type() = t.
C5_ModelTypeReportsSelectedType ==
    reported_type # None => reported_type = Some(arg_model_type)

-----------------------------------------------------------------------------
\* A sequence of calls on one loaded model

\* the number of calls made one after the other
MaxCalls == 3

\* the label lists the calls of a sequence are made with: the first label
\* alone, or the first two
SeqLabels == {SubSeq(labels, 1, l) : l \in 1..2}

SeqPredict ==
    /\ Loaded
    /\ Len(calls) < MaxCalls
    /\ \E labs \in SeqLabels :
          Run("predict", inputs, labs, Identity(Len(inputs)), Identity(Len(labs)))
    /\ UNCHANGED << newVars, modelVars, argVars, otherVars >>

SeqPredictMultilabel ==
    /\ Loaded
    /\ Len(calls) < MaxCalls
    /\ \E labs \in SeqLabels :
          Run("multilabel", inputs, labs, Identity(Len(inputs)), Identity(Len(labs)))
    /\ UNCHANGED << newVars, modelVars, argVars, otherVars >>

InitSeq ==
    /\ arg_model_type = "Bart"
    /\ arg_config = "Bart"
    /\ xlnet_new = "Ok"
    /\ zero_shot_classifier = ZeroShotClassificationOption_new("Bart", "Bart", "Ok")
    /\ reported_type = None
    /\ pad_id = BartPad
    /\ num_classes = 3
    /\ network = << >>
    /\ inputs = << InputText(1) >>
    /\ labels = << LabelText(1), LabelText(2) >>
    /\ template \in {"None", "Some"}
    /\ max_length \in MaxLengths
    /\ calls = << >>
    /\ prepared = NotRun
    /\ threads = << >>

NextSeq ==
    \/ SeqPredict
    \/ SeqPredictMultilabel

SpecSeq == InitSeq /\ [][NextSeq]_vars

\* two calls were made with the same entry point and the same arguments
SameArguments(a, b) ==
    /\ calls[a].fn = calls[b].fn
    /\ calls[a].inputs = calls[b].inputs
    /\ calls[a].labels = calls[b].labels

\* a step leaves the tokenizer, the adapter and the parameters as they were:
\* the logits of every row the network has been run on stay what they are
ModelUntouched ==
    /\ pad_id' = pad_id
    /\ zero_shot_classifier' = zero_shot_classifier
    /\ num_classes' = num_classes
    /\ \A row \in DOMAIN network :
          row \in DOMAIN network' /\ network'[row] = network[row]

-----------------------------------------------------------------------------
\* Calls on a model whose tokenizer has no pad id

InitNoPad ==
    /\ arg_model_type = "Bart"
    /\ arg_config = "Bart"
    /\ xlnet_new = "Ok"
    /\ zero_shot_classifier = ZeroShotClassificationOption_new("Bart", "Bart", "Ok")
    /\ reported_type = None
    /\ pad_id = NoPad
    /\ num_classes \in 2..MaxClasses
    /\ network = << >>
    /\ inputs \in {[i \in 1..n |-> InputText(i)] : n \in 0..MaxInputs}
    /\ labels \in {[j \in 1..l |-> LabelText(j)] : l \in 0..MaxLabels}
    /\ template \in {"None", "Some"}
    /\ max_length \in MaxLengths
    /\ calls = << >>
    /\ prepared = NotRun
    /\ threads = << >>

NextNoPad ==
    \/ Predict
    \/ PredictMultilabel

SpecNoPad == InitNoPad /\ [][NextNoPad]_vars

\* the token sequences the tokenizer returns for a call's pairs
TokenizedOf(c) ==
    prepare_for_model(c.inputs, c.labels, template, max_length, pad_id).tokenized

\* C12: if the tokenizer has no pad id, every call of predict or
\* predict_multilabel with non-empty inputs and labels ends in the fatal error
\* of get_pad_id().expect(..), raised while the inputs are prepared: before any
\* forward pass and with no Label returned, also when all the token sequences
\* have the same length and no padding is needed.
C12_NoPadIdIsFatalBeforeForward ==
    pad_id = NoPad =>
        \A k \in 1..Len(calls) :
            NonEmpty(calls[k]) =>
                /\ calls[k].result.tag = "Panic"
                /\ calls[k].result.at = "get_pad_id().expect()"
                /\ ~calls[k].result.forward
                /\ calls[k].result.out = << >>

\* a call without pad id whose two token sequences have the same length
C12_Witness ==
    /\ pad_id = NoPad
    /\ Len(calls) = 1
    /\ Len(calls[1].inputs) = 1
    /\ Len(calls[1].labels) = 2
    /\ Len(TokenizedOf(calls[1])) = 2
    /\ Len(TokenizedOf(calls[1])[1]) = Len(TokenizedOf(calls[1])[2])
    /\ calls[1].result.tag = "Panic"
    /\ calls[1].result.at = "get_pad_id().expect()"
    /\ ~calls[1].result.forward

-----------------------------------------------------------------------------
\* prepare_for_model on its own

\* a text longer than every label sentence
LongText == << 13, 14, 15, 16, 17, 18 >>

\* a text in which the tokenizer finds its own padding token
PadTokenText == << 19, 1 >>

\* the input lists prepare_for_model is run on
PrepInputs ==
    { << >>,
      << InputText(1) >>,
      << InputText(1), InputText(2) >>,
      << LongText >>,
      << LongText, InputText(1) >>,
      << PadTokenText >>,
      << PadTokenText, LongText >> }

\* the max_length values prepare_for_model is run with
PrepMaxLengths == {7, 9, 11, 128}

Prepare ==
    /\ Loaded
    /\ prepared = NotRun
    /\ prepared' = prepare_for_model(inputs, labels, template, max_length, pad_id)
    /\ UNCHANGED << newVars, modelVars, argVars, network, calls, threads >>

InitPrep ==
    /\ arg_model_type = "Bart"
    /\ arg_config = "Bart"
    /\ xlnet_new = "Ok"
    /\ zero_shot_classifier = ZeroShotClassificationOption_new("Bart", "Bart", "Ok")
    /\ reported_type = None
    /\ pad_id \in {BartPad, NoPad}
    /\ num_classes = 3
    /\ network = << >>
    /\ inputs \in PrepInputs
    /\ labels \in {[j \in 1..l |-> LabelText(j)] : l \in 0..MaxLabels}
    /\ template \in {"None", "Some"}
    /\ max_length \in PrepMaxLengths
    /\ calls = << >>
    /\ prepared = NotRun
    /\ threads = << >>

NextPrep == Prepare

SpecPrep == InitPrep /\ [][NextPrep]_vars

\* the hypothesis sentence of a label: the caller's template applied to it, or
\* "This example is about {label}."
Hypothesis(label) ==
    IF template = "Some" THEN CustomTemplate(label) ELSE DefaultTemplate(label)

\* the token sequence the tokenizer returned for input i and label j, from 1
TokensOf(i, j) == prepared.tokenized[(i - 1) * Len(labels) + j]

\* C13 (as claimed): when a pair is longer than max_length, truncation removes
\* tokens from the input text only and leaves the whole label sentence in the
\* token sequence, also for a pair whose label sentence is longer than its
\* input text.
C13_TruncationKeepsLabelSentence ==
    prepared.tag = "Ok" =>
        \A i \in 1..Len(inputs), j \in 1..Len(labels) :
            Len(inputs[i]) + Len(Hypothesis(labels[j])) + 3 > max_length =>
                \E m \in 0..Len(inputs[i]) :
                    TokensOf(i, j) =
                        Cls \o SubSeq(inputs[i], 1, m) \o Sep
                            \o Hypothesis(labels[j]) \o Sep

LongestRow == MaxOf({Len(prepared.tokenized[k]) : k \in 1..Len(prepared.tokenized)})

\* C16: prepare_for_model returns a token batch and a mask of the same shape
\* [N*L, P], P the greatest token count of a row before padding; every row
\* keeps its own tokens as a prefix and is extended on the right with the pad
\* id only, up to exactly P, so at least one row receives no padding.
C16_RowsRightPaddedToLongest ==
    prepared.tag = "Ok" =>
        /\ Len(prepared.input_tensor) = Len(inputs) * Len(labels)
        /\ Len(prepared.mask) = Len(inputs) * Len(labels)
        /\ \A k \in 1..Len(prepared.input_tensor) :
              /\ Len(prepared.input_tensor[k]) = LongestRow
              /\ Len(prepared.mask[k]) = LongestRow
              /\ SubSeq(prepared.input_tensor[k], 1, Len(prepared.tokenized[k])) =
                    prepared.tokenized[k]
              /\ \A c \in (Len(prepared.tokenized[k]) + 1)..LongestRow :
                    prepared.input_tensor[k][c] = pad_id.val
        /\ \E k \in 1..Len(prepared.input_tensor) :
              prepared.input_tensor[k] = prepared.tokenized[k]

\* a batch with a row that is padded by two or more positions and a row that
\* is not padded
C16_Witness ==
    /\ prepared.tag = "Ok"
    /\ \E k, m \in 1..Len(prepared.input_tensor) :
          /\ Len(prepared.tokenized[k]) + 2 <= Len(prepared.input_tensor[k])
          /\ prepared.input_tensor[k][Len(prepared.input_tensor[k])] = pad_id.val
          /\ prepared.input_tensor[m] = prepared.tokenized[m]

\* C17 (as claimed): the mask is true exactly at the positions that hold one
\* of the pair's own tokens and false exactly at the positions added as
\* padding, whatever the tokens are, a token equal to the pad id included.
C17_MaskMarksOwnTokens ==
    prepared.tag = "Ok" =>
        \A k \in 1..Len(prepared.mask) :
            \A c \in 1..Len(prepared.mask[k]) :
                prepared.mask[k][c] = (c <= Len(prepared.tokenized[k]))

-----------------------------------------------------------------------------
\* Concurrent calls on one loaded model

\* the threads that call the model at the same time
Threads == {1, 2}

\* the texts the threads classify: two texts of the same length
ThreadTexts == {InputText(1), InputText(3)}

\* a thread about to call fn on one text with the first label
ThreadStart(fn, text) ==
    [pc |-> "start", fn |-> fn, inputs |-> << text >>,
     input_tensor |-> << >>, logits |-> << >>, out |-> << >>]

\* the batch a call on a text prepares
ThreadBatch(text) ==
    prepare_for_model(<< text >>, labels, template, max_length, pad_id).input_tensor

\* mutant: the batch kept in a slot of the model that the latest call to
\* prepare its inputs has overwritten
SharedTensor(t) ==
    IF \E u \in Threads \ {t} : threads[u].pc # "start"
    THEN threads[CHOOSE u \in Threads \ {t} : threads[u].pc # "start"].input_tensor
    ELSE threads[t].input_tensor

\* let (input_tensor, mask) = self.prepare_for_model(..): a local of the call
LocalTensor(t) == threads[t].input_tensor

\* let (input_tensor, mask) = self.prepare_for_model(inputs, labels, template, max_length)
ThreadPrepare(t) ==
    /\ threads[t].pc = "start"
    /\ threads' = [threads EXCEPT ![t] =
           [@ EXCEPT !.pc = "prepared",
                     !.input_tensor = ThreadBatch(threads[t].inputs[1])]]
    /\ UNCHANGED << newVars, modelVars, argVars, network, calls, prepared >>

\* let output = no_grad(|| self.zero_shot_classifier.forward_t(Some(input_tensor), ..))
ThreadForward(t) ==
    /\ threads[t].pc = "prepared"
    /\ threads' = [threads EXCEPT ![t] =
           [@ EXCEPT !.pc = "forwarded",
                     !.logits = forward_t(network, LocalTensor(t))]]
    /\ UNCHANGED << newVars, modelVars, argVars, network, calls, prepared >>

\* the scores and the Label records built from the call's own output
ThreadReduce(t) ==
    /\ threads[t].pc = "forwarded"
    /\ threads' = [threads EXCEPT ![t] =
           [@ EXCEPT !.pc = "done",
                     !.out = Reduce(threads[t].fn, threads[t].logits,
                                    Len(threads[t].inputs), labels)]]
    /\ UNCHANGED << newVars, modelVars, argVars, network, calls, prepared >>

InitConc ==
    /\ arg_model_type = "Bart"
    /\ arg_config = "Bart"
    /\ xlnet_new = "Ok"
    /\ zero_shot_classifier = ZeroShotClassificationOption_new("Bart", "Bart", "Ok")
    /\ reported_type = None
    /\ pad_id = BartPad
    /\ num_classes = 3
    /\ inputs = << >>
    /\ labels = << LabelText(1) >>
    /\ template = "None"
    /\ max_length = 128
    /\ network \in [UNION {RowsOf(ThreadBatch(text)) : text \in ThreadTexts} -> LogitRows]
    /\ calls = << >>
    /\ prepared = NotRun
    /\ threads \in [Threads ->
           {ThreadStart(fn, text) : fn \in {"predict", "multilabel"}, text \in ThreadTexts}]

NextConc ==
    \E t \in Threads :
        \/ ThreadPrepare(t)
        \/ ThreadForward(t)
        \/ ThreadReduce(t)

SpecConc == InitConc /\ [][NextConc]_vars

\* what thread t's call returns when it is the only call: its batch, its
\* logits and its Label records
AloneTensor(t) == ThreadBatch(threads[t].inputs[1])
AloneLogits(t) == forward_t(network, AloneTensor(t))
AloneOut(t) == Reduce(threads[t].fn, AloneLogits(t), 1, labels)

\* a step writes nothing the calls share and nothing of another call
NothingSharedWritten ==
    /\ network' = network
    /\ pad_id' = pad_id
    /\ zero_shot_classifier' = zero_shot_classifier
    /\ \A t, u \in Threads :
          (t # u /\ threads'[t] # threads[t]) => threads'[u] = threads[u]

=============================================================================
